---- MODULE Spec2Model ----
(***************************************************************************)
(* Streamside: the chunk ingestion endpoint (POST /api/upload-chunk), the  *)
(* object store behind it, the Recording ledger, and the client-side       *)
(* MediaRecorderService that produces and uploads the chunks.              *)
(***************************************************************************)
EXTENDS Integers, Sequences, FiniteSets, TLC

(***************************************************************************)
(* Bounds of the model.                                                    *)
(***************************************************************************)
\* number of ingest requests the endpoint receives in one behaviour
MaxRequests == 2
\* largest chunk index a well-behaved client sends
MaxIndex == 1
\* number of segments the recorders of one service produce in one behaviour
MaxSegments == 2
\* number of startRecording calls that get past the isRecording check
MaxStarts == 2
\* number of objects the bucket holds when keys are listed
MaxObjects == 3
\* number of recording-state events a call page receives in one behaviour
MaxEvents == 3
\* number of messages the clients send to the Socket.io server
MaxMessages == 3

(***************************************************************************)
(* Text: a string is a sequence of one-character strings.                  *)
(***************************************************************************)
Digits == <<"0", "1", "2", "3", "4", "5", "6", "7", "8", "9">>

IsDigit(c) == \E d \in 1..10 : Digits[d] = c

DigitValue(c) == (CHOOSE d \in 1..10 : Digits[d] = c) - 1

\* Number.prototype.toString() of an integer, radix 10.
RECURSIVE NatToString(_)
NatToString(n) ==
    IF n < 10 THEN <<Digits[n + 1]>>
    ELSE NatToString(n \div 10) \o <<Digits[(n % 10) + 1]>>

NumberToString(n) ==
    IF n < 0 THEN <<"-">> \o NatToString(-n) ELSE NatToString(n)

\* (variant: the numeral is not padded)
PadStartNone(s, targetLength, pad) == s

\* String.prototype.padStart(targetLength, padString) with a one-character pad.
RECURSIVE PadStart(_, _, _)
PadStart(s, targetLength, pad) ==
    IF Len(s) >= targetLength THEN s
    ELSE PadStart(<<pad>> \o s, targetLength, pad)

\* parseInt(string) without a radix: leading white space is skipped, then an
\* optional sign, then the longest prefix of decimal digits; no digit at all
\* gives NaN.  Whatever follows the digits is ignored.  (The "0x" prefix, which
\* switches to radix 16, is not among the texts the model sends.)
RECURSIVE SkipSpace(_)
SkipSpace(s) == IF s # <<>> /\ Head(s) = " " THEN SkipSpace(Tail(s)) ELSE s

RECURSIVE DigitPrefix(_)
DigitPrefix(s) ==
    IF s # <<>> /\ IsDigit(Head(s)) THEN <<Head(s)>> \o DigitPrefix(Tail(s))
    ELSE <<>>

RECURSIVE DigitsValue(_, _)
DigitsValue(s, acc) ==
    IF s = <<>> THEN acc
    ELSE DigitsValue(Tail(s), 10 * acc + DigitValue(Head(s)))

NaN == [isNaN |-> TRUE, value |-> 0]

ParseInt(text) ==
    LET t    == SkipSpace(text)
        neg  == t # <<>> /\ Head(t) = "-"
        body == IF t # <<>> /\ Head(t) \in {"-", "+"} THEN Tail(t) ELSE t
        ds   == DigitPrefix(body)
    IN  IF ds = <<>> THEN NaN
        ELSE [isNaN |-> FALSE,
              value |-> IF neg THEN -DigitsValue(ds, 0) ELSE DigitsValue(ds, 0)]

(***************************************************************************)
(* The world the endpoint runs in.                                         *)
(***************************************************************************)
\* rows of the Studio table, rows of the User table
Studios == {"s1"}
Users == {"p1", "p2"}

\* A multipart form: each field is <<v>> when present and <<>> when absent.
Field(v) == <<v>>
Absent == <<>>

\* Forms the MediaRecorderService builds (its uploadChunk): a non-empty blob
\* (ondataavailable skips empty ones), the ids of an existing studio and
\* user, and the decimal text of its chunk counter.
ClientForms ==
    [chunk         : {Field(<<0>>), Field(<<0, 1>>)},
     studioId      : {Field("s1")},
     participantId : {Field("p1"), Field("p2")},
     chunkIndex    : {Field(NumberToString(i)) : i \in 0..MaxIndex}]

BaseForm ==
    [chunk |-> Field(<<0>>), studioId |-> Field("s1"),
     participantId |-> Field("p1"), chunkIndex |-> Field(<<"0">>)]

\* texts of chunkIndex that are no numeral of a non-negative integer
OddIndexTexts == {<<"-", "1">>, <<"1", ".", "5">>, <<"a">>}

\* Forms any other authenticated HTTP client can send: an odd or absent
\* index, an empty blob, a missing field, an unknown studio or user.
OtherForms ==
    {[BaseForm EXCEPT !.chunkIndex = Field(t)] : t \in OddIndexTexts}
    \cup {[BaseForm EXCEPT !.chunkIndex = Absent],
          [BaseForm EXCEPT !.chunk = Field(<<>>)],
          [BaseForm EXCEPT !.chunk = Absent],
          [BaseForm EXCEPT !.studioId = Field("s9")],
          [BaseForm EXCEPT !.participantId = Field("p9")]}

Forms == ClientForms \cup OtherForms

Requests == 1..MaxRequests

\* ids of the sockets that connect, and the room names clients use
SocketIds == {"k1", "k2"}
RoomIds == {"s1", "s2"}

VARIABLES
    req,         \* req[r]: the state of ingest request r (POST handler)
    objects,     \* the bucket: object name -> stored bytes
    recordings,  \* the Recording table: a set of rows
    listing,     \* the last listChunks call: its arguments and what it resolved
    \* the Socket.io server
    sockets,     \* sockets[k]: "new", "connected" or "gone"
    rooms,       \* rooms[x]: the sockets joined to room x
    inbox,       \* history: inbox[k], the events emitted to socket k, in order
    handled,     \* history: the client messages the server has handled
    \* one MediaRecorderService instance in a browser
    isRecording,    \* this.isRecording
    chunkIndex,     \* this.chunkIndex
    localStream,    \* this.localStream is not null
    mediaRecorder,  \* this.mediaRecorder: 0 for null, else the recorder's number
    recorders,      \* the MediaRecorder objects created so far
    starting,       \* startRecording calls waiting in initializeStream
    uploads,        \* uploadChunk calls whose fetch has not settled
    sent,           \* history: the (segment, index) pairs given to uploadChunk
    uploaded,       \* history: the (segment, index) pairs given to onChunkUploaded
    errors,         \* history: the segments whose upload failed
    started,        \* history: startRecording calls that passed the first check
    reported,       \* history: onError calls that did not come from an upload
    \* the call page that owns the service
    storeIsRecording,  \* isRecording of the studio store
    received,          \* history: the recording-state values received
    cleanedAt          \* history: what started was at the last cleanup(), -1
                       \* when the effect's cleanup has not run

busVars == <<sockets, rooms, inbox, handled>>

serverVars == <<req, objects, recordings, listing, sockets, rooms, inbox, handled>>

pageVars == <<storeIsRecording, received, cleanedAt>>

clientVars == <<isRecording, chunkIndex, localStream, mediaRecorder, recorders,
                starting, uploads, sent, uploaded, errors, started, reported,
                storeIsRecording, received, cleanedAt>>

vars == <<req, objects, recordings, listing, sockets, rooms, inbox, handled,
          isRecording, chunkIndex, localStream,
          mediaRecorder, recorders, starting, uploads, sent, uploaded, errors,
          started, reported, storeIsRecording, received, cleanedAt>>

(***************************************************************************)
(* POST /api/upload-chunk                                                  *)
(***************************************************************************)
\* formData.get(name) as string: null when the field is absent; a null passed
\* to parseInt is converted to the text "null".
FormText(f) == IF f = Absent THEN <<"n", "u", "l", "l">> ELSE f[1]

\* !x of a form value: null and the empty string are falsy, a Blob never is.
Falsy(f) == f = Absent \/ f = Field("")

ChunkIndexOf(form) == ParseInt(FormText(form.chunkIndex))

\* route.ts line 38
MissingRequiredFields(form) ==
    \/ form.chunk = Absent
    \/ Falsy(form.studioId)
    \/ Falsy(form.participantId)
    \/ ChunkIndexOf(form).isNaN

\* minio.ts uploadChunk: the object name
ObjectName(studioId, participantId, index) ==
    <<studioId, "/", participantId, "/", "chunk-">>
        \o PadStart(NumberToString(index), 5, "0") \o <<".webm">>

ObjectNameOf(form) ==
    ObjectName(form.studioId[1], form.participantId[1], ChunkIndexOf(form).value)

BufferOf(form) == form.chunk[1]

\* (variant: the lookup's result is not checked)
StudioFoundUnchecked(studioId) == TRUE

\* prisma.studio.findUnique({ where: { id } }) found a row
StudioFound(studioId) == studioId \in Studios

\* (variant: a put that keeps the object already stored under the name)
PutObjectKeepingFirst(bucket, objectName, buffer) ==
    [n \in DOMAIN bucket \cup {objectName} |->
        IF n \in DOMAIN bucket THEN bucket[n] ELSE buffer]

\* minioClient.putObject: the bucket after the put
PutObject(bucket, objectName, buffer) ==
    [n \in DOMAIN bucket \cup {objectName} |->
        IF n = objectName THEN buffer ELSE bucket[n]]

\* the row of the unique index (studioId, participantId), as a set
RowsOf(rows, studioId, participantId) ==
    {row \in rows : row.studioId = studioId /\ row.participantId = participantId}

\* (variant: update: { size: n }, a set in place of the increment)
UpdatedRowSettingSize(row, n) == [row EXCEPT !.size = n]

\* update branch of the upsert: size: { increment: n }
UpdatedRow(row, n) == [row EXCEPT !.size = @ + n]

\* (variant: the create branch leaves size to the column default, 0)
CreatedRowDefaultSize(rows, studioId, participantId, objectName, n) ==
    [id |-> Cardinality(rows) + 1, studioId |-> studioId,
     participantId |-> participantId, fileUrl |-> objectName,
     size |-> 0, status |-> "uploading"]

\* create branch of the upsert
CreatedRow(rows, studioId, participantId, objectName, n) ==
    [id |-> Cardinality(rows) + 1, studioId |-> studioId,
     participantId |-> participantId, fileUrl |-> objectName,
     size |-> n, status |-> "uploading"]

\* (variant: prisma.recording.create in place of the upsert)
RecordingCreate(rows, studioId, participantId, objectName, n) ==
    rows \cup {CreatedRow(rows, studioId, participantId, objectName, n)}

\* prisma.recording.upsert({ where: { studioId_participantId }, update, create }):
\* one statement of the database, decided by the unique index
RecordingUpsert(rows, studioId, participantId, objectName, n) ==
    IF RowsOf(rows, studioId, participantId) # {}
    THEN {IF row \in RowsOf(rows, studioId, participantId)
          THEN UpdatedRow(row, n) ELSE row : row \in rows}
    ELSE rows \cup {CreatedRow(rows, studioId, participantId, objectName, n)}

\* Recording_participantId_fkey: participantId references User(id)
ForeignKeysHold(studioId, participantId) ==
    studioId \in Studios /\ participantId \in Users

\* (variant: the throw of uploadChunk is swallowed)
AfterPutIgnoringFailure(ok) == "upsert"

\* what happens after uploadChunk settled: the catch of line 95 on a throw
AfterPut(ok) == IF ok THEN "upsert" ELSE "done"

\* A request: where its handler stands (pc), what it was sent, what it
\* answered (status, totalSize), and what it did: put (its object put took
\* effect), fresh (no row of its pair existed when it put), replaced (the
\* length of the object its put replaced, 0 when there was none), turn (its
\* upsert was the turn-th to take effect, 0 when it has not), fault (the
\* injected outage that failed it).
NoRequest ==
    [pc |-> "idle", authed |-> FALSE, form |-> BaseForm, status |-> 0,
     totalSize |-> 0, put |-> FALSE, fresh |-> FALSE, replaced |-> 0,
     turn |-> 0,
     fault |-> "none"]

Turns == Cardinality({r \in Requests : req[r].turn > 0})

\* no listChunks call has resolved yet
NoListing == [studioId |-> "", participantId |-> "", chunks |-> <<>>]

Init ==
    /\ req = [r \in Requests |-> NoRequest]
    /\ objects = <<>>
    /\ recordings = {}
    /\ listing = NoListing
    /\ sockets = [k \in SocketIds |-> "new"]
    /\ rooms = [x \in RoomIds |-> {}]
    /\ inbox = [k \in SocketIds |-> <<>>]
    /\ handled = <<>>
    /\ isRecording = FALSE
    /\ chunkIndex = 0
    /\ localStream = FALSE
    /\ mediaRecorder = 0
    /\ recorders = <<>>
    /\ starting = 0
    /\ uploads = {}
    /\ sent = <<>>
    /\ uploaded = <<>>
    /\ errors = {}
    /\ started = 0
    /\ reported = [device |-> 0, encoder |-> 0]
    /\ storeIsRecording = FALSE
    /\ received = <<>>
    /\ cleanedAt = -1

\* lines 19-55: the request arrives; session check, form parsing, field
\* validation, studio lookup.  None of them reads anything another request
\* writes (the Studio table does not change), so they are one step.  The form
\* of an unauthenticated request is never read.
Post(r, authed, form) ==
    /\ req[r].pc = "idle"
    /\ IF r = 1 THEN TRUE ELSE req[r - 1].pc # "idle"
    /\ authed \/ form = BaseForm
    /\ LET status == IF ~authed THEN 401
                     ELSE IF MissingRequiredFields(form) THEN 400
                     ELSE IF ~StudioFound(form.studioId[1]) THEN 404
                     ELSE 0
       IN  req' = [req EXCEPT ![r] =
                     [NoRequest EXCEPT
                        !.authed = authed, !.form = form, !.status = status,
                        !.pc = IF status = 0 THEN "putObject" ELSE "done"]]
    /\ UNCHANGED <<objects, recordings, listing, busVars, clientVars>>

\* lines 57-62: uploadChunk; the put succeeds or throws
StoreChunk(r, ok) ==
    /\ req[r].pc = "putObject"
    /\ LET form == req[r].form
       IN  /\ objects' = IF ok
                         THEN PutObject(objects, ObjectNameOf(form), BufferOf(form))
                         ELSE objects
           /\ req' = [req EXCEPT
                 ![r].pc = AfterPut(ok),
                 ![r].status = IF AfterPut(ok) = "done" THEN 500 ELSE 0,
                 ![r].put = ok,
                 ![r].replaced =
                     IF ok /\ ObjectNameOf(form) \in DOMAIN objects
                     THEN Len(objects[ObjectNameOf(form)]) ELSE 0,
                 ![r].fresh = RowsOf(recordings, form.studioId[1],
                                     form.participantId[1]) = {},
                 ![r].fault = IF ok THEN "none" ELSE "store"]
    /\ UNCHANGED <<recordings, listing, busVars, clientVars>>

\* lines 64-94: the upsert and the response; the database may be unreachable
UpsertRecording(r, dbUp) ==
    /\ req[r].pc = "upsert"
    /\ LET form == req[r].form
           s    == form.studioId[1]
           p    == form.participantId[1]
           n    == Len(BufferOf(form))
           rows == RecordingUpsert(recordings, s, p, ObjectNameOf(form), n)
       IN  IF dbUp /\ ForeignKeysHold(s, p)
           THEN /\ recordings' = rows
                /\ req' = [req EXCEPT
                             ![r].pc = "done", ![r].status = 200,
                             ![r].turn = Turns + 1,
                             ![r].totalSize =
                                 (CHOOSE row \in RowsOf(rows, s, p) : TRUE).size]
           ELSE /\ req' = [req EXCEPT
                             ![r].pc = "done", ![r].status = 500,
                             ![r].fault = IF dbUp THEN "none" ELSE "db"]
                /\ UNCHANGED recordings
    /\ UNCHANGED <<objects, listing, busVars, clientVars>>

Next ==
    \/ \E r \in Requests, authed \in BOOLEAN, form \in Forms : Post(r, authed, form)
    \/ \E r \in Requests, ok \in BOOLEAN : StoreChunk(r, ok)
    \/ \E r \in Requests, dbUp \in BOOLEAN : UpsertRecording(r, dbUp)

Spec == Init /\ [][Next]_vars

(***************************************************************************)
(* MediaRecorderService (the client).  A MediaRecorder is a record: its    *)
(* state and the events it has queued and not yet delivered.               *)
(***************************************************************************)
\* new MediaRecorder(stream, options) followed by start(timeslice); trailing
\* and faulted are history: what the final dataavailable of the recorder
\* carried, and whether the recorder ended by a fault
NewRecorder ==
    [state |-> "recording", events |-> <<>>, trailing |-> "none",
     faulted |-> FALSE]

\* A recorder that cannot go on gathering data: the user agent inactivates
\* it and fires error, then dataavailable with what it gathered, then stop
\* (MediaStream Recording, error handling of start()).
FaultedRecorder(rec) ==
    [rec EXCEPT !.state = "inactive", !.events = <<"error", "data", "stop">>,
                !.faulted = TRUE]

\* MediaRecorder.stop() of a recording recorder: it becomes inactive and
\* queues the final dataavailable and then the stop event
StoppedRecorder(rec) ==
    [rec EXCEPT !.state = "inactive", !.events = <<"data", "stop">>]

\* (variant: the index is taken from the number of segments handed over)
IndexForSegmentCounted(index, handedOver) == handedOver

\* the index ondataavailable passes to uploadChunk: this.chunkIndex, which
\* advances only when an upload has succeeded
IndexForSegment(index, handedOver) == index

\* ondataavailable of recorder m, up to its await: an empty blob is dropped,
\* any other is handed to uploadChunk with the current chunkIndex (recorder
\* and final are history: whose event it was, and whether its last one)
OnDataAvailable(m, final, nonEmpty) ==
    IF nonEmpty
    THEN LET u == [seg |-> Len(sent) + 1,
                   index |-> IndexForSegment(chunkIndex, Len(sent)),
                   recorder |-> m, final |-> final]
         IN  /\ uploads' = uploads \cup {u}
             /\ sent' = Append(sent, u)
    ELSE UNCHANGED <<uploads, sent>>

\* lines 98-146: the recorder is created and started
CreateAndStart ==
    /\ recorders' = Append(recorders, NewRecorder)
    /\ mediaRecorder' = Len(recorders) + 1
    /\ isRecording' = TRUE

\* startRecording, lines 84-92, and on when the stream is already held
StartRecording ==
    /\ started < MaxStarts
    /\ ~isRecording
    /\ started' = started + 1
    /\ IF localStream
       THEN CreateAndStart /\ UNCHANGED starting
       ELSE starting' = starting + 1
            /\ UNCHANGED <<recorders, mediaRecorder, isRecording>>
    /\ UNCHANGED <<chunkIndex, localStream, uploads, sent, uploaded, errors,
                   serverVars, pageVars, reported>>

\* startRecording called while isRecording: the warning, nothing else
StartWhileRecording ==
    /\ isRecording
    /\ UNCHANGED vars

\* (variant: a failed acquisition is reported and the recorder started anyway)
StreamSettledIgnoringFailure(ok) ==
    /\ starting > 0
    /\ starting' = starting - 1
    /\ CreateAndStart
    /\ IF ok
       THEN localStream' = TRUE /\ UNCHANGED reported
       ELSE reported' = [reported EXCEPT !.device = @ + 1]
            /\ UNCHANGED localStream
    /\ UNCHANGED <<chunkIndex, uploads, sent, uploaded, errors, started,
                   serverVars, pageVars>>

\* initializeStream settles (lines 50-77) and startRecording goes on
StreamSettled(ok) ==
    /\ starting > 0
    /\ starting' = starting - 1
    /\ IF ok
       THEN localStream' = TRUE /\ CreateAndStart /\ UNCHANGED reported
       ELSE /\ reported' = [reported EXCEPT !.device = @ + 1]
            /\ UNCHANGED <<localStream, recorders, mediaRecorder, isRecording>>
    /\ UNCHANGED <<chunkIndex, uploads, sent, uploaded, errors, started,
                   serverVars, pageVars>>

\* (variant: the next segment is cut only when no upload is in flight)
TimesliceAwaitingUploads(m, nonEmpty) ==
    /\ m \in DOMAIN recorders
    /\ recorders[m].state = "recording"
    /\ uploads = {}
    /\ Len(sent) < MaxSegments
    /\ OnDataAvailable(m, FALSE, nonEmpty)
    /\ UNCHANGED <<isRecording, chunkIndex, localStream, mediaRecorder,
                   recorders, starting, uploaded, errors, started, serverVars,
                   pageVars, reported>>

\* the timeslice of recorder m elapses: dataavailable
Timeslice(m, nonEmpty) ==
    /\ m \in DOMAIN recorders
    /\ recorders[m].state = "recording"
    /\ Len(sent) < MaxSegments
    /\ OnDataAvailable(m, FALSE, nonEmpty)
    /\ UNCHANGED <<isRecording, chunkIndex, localStream, mediaRecorder,
                   recorders, starting, uploaded, errors, started, serverVars, pageVars, reported>>

\* (variant: stopRecording also aborts the uploads in flight)
StopRecordingAborting ==
    /\ isRecording /\ mediaRecorder # 0
    /\ recorders[mediaRecorder].state = "recording"
    /\ recorders' = [recorders EXCEPT
                       ![mediaRecorder] = StoppedRecorder(recorders[mediaRecorder])]
    /\ uploads' = {}
    /\ UNCHANGED <<isRecording, chunkIndex, localStream, mediaRecorder, starting,
                   sent, uploaded, errors, started, serverVars, pageVars, reported>>

\* stopRecording, lines 159-167
StopRecording ==
    /\ isRecording /\ mediaRecorder # 0
    /\ recorders[mediaRecorder].state = "recording"
    /\ recorders' = [recorders EXCEPT
                       ![mediaRecorder] = StoppedRecorder(recorders[mediaRecorder])]
    /\ UNCHANGED <<isRecording, chunkIndex, localStream, mediaRecorder, starting,
                   uploads, sent, uploaded, errors, started, serverVars, pageVars, reported>>

\* the final dataavailable of a stopped recorder
FinalData(m, nonEmpty) ==
    /\ m \in DOMAIN recorders
    /\ recorders[m].events # <<>> /\ Head(recorders[m].events) = "data"
    /\ nonEmpty => Len(sent) < MaxSegments
    /\ recorders' = [recorders EXCEPT
                       ![m].events = Tail(@),
                       ![m].trailing = IF nonEmpty THEN "data" ELSE "empty"]
    /\ OnDataAvailable(m, TRUE, nonEmpty)
    /\ UNCHANGED <<isRecording, chunkIndex, localStream, mediaRecorder, starting,
                   uploaded, errors, started, serverVars, pageVars, reported>>

\* onstop, lines 138-141
OnStop(m) ==
    /\ m \in DOMAIN recorders
    /\ recorders[m].events # <<>> /\ Head(recorders[m].events) = "stop"
    /\ recorders' = [recorders EXCEPT ![m].events = Tail(@)]
    /\ isRecording' = FALSE
    /\ UNCHANGED <<chunkIndex, localStream, mediaRecorder, starting, uploads,
                   sent, uploaded, errors, started, serverVars, pageVars, reported>>

\* the encoder of recorder m fails while it records
EncoderFault(m) ==
    /\ m \in DOMAIN recorders
    /\ recorders[m].state = "recording"
    /\ recorders' = [recorders EXCEPT ![m] = FaultedRecorder(recorders[m])]
    /\ UNCHANGED <<isRecording, chunkIndex, localStream, mediaRecorder, starting,
                   uploads, sent, uploaded, errors, started, serverVars, pageVars,
                   reported>>

\* (variant: onerror logs the error and does not call onError)
OnRecorderErrorSilent(m) ==
    /\ m \in DOMAIN recorders
    /\ recorders[m].events # <<>> /\ Head(recorders[m].events) = "error"
    /\ recorders' = [recorders EXCEPT ![m].events = Tail(@)]
    /\ UNCHANGED <<isRecording, chunkIndex, localStream, mediaRecorder, starting,
                   uploads, sent, uploaded, errors, started, serverVars, pageVars,
                   reported>>

\* onerror, lines 132-136
OnRecorderError(m) ==
    /\ m \in DOMAIN recorders
    /\ recorders[m].events # <<>> /\ Head(recorders[m].events) = "error"
    /\ recorders' = [recorders EXCEPT ![m].events = Tail(@)]
    /\ reported' = [reported EXCEPT !.encoder = @ + 1]
    /\ UNCHANGED <<isRecording, chunkIndex, localStream, mediaRecorder, starting,
                   uploads, sent, uploaded, errors, started, serverVars, pageVars>>

\* (variant: a failed upload also ends the recording)
UploadSettledStoppingOnFailure(u, ok) ==
    /\ u \in uploads
    /\ uploads' = uploads \ {u}
    /\ IF ok
       THEN /\ uploaded' = Append(uploaded, [seg |-> u.seg, index |-> chunkIndex])
            /\ chunkIndex' = chunkIndex + 1
            /\ UNCHANGED <<errors, isRecording>>
       ELSE /\ errors' = errors \cup {u.seg}
            /\ isRecording' = FALSE
            /\ UNCHANGED <<uploaded, chunkIndex>>
    /\ UNCHANGED <<localStream, mediaRecorder, recorders, starting,
                   sent, started, serverVars, pageVars, reported>>

\* the fetch of uploadChunk settles and ondataavailable goes on, lines 121-128
UploadSettled(u, ok) ==
    /\ u \in uploads
    /\ uploads' = uploads \ {u}
    /\ IF ok
       THEN /\ uploaded' = Append(uploaded, [seg |-> u.seg, index |-> chunkIndex])
            /\ chunkIndex' = chunkIndex + 1
            /\ UNCHANGED errors
       ELSE /\ errors' = errors \cup {u.seg}
            /\ UNCHANGED <<uploaded, chunkIndex>>
    /\ UNCHANGED <<isRecording, localStream, mediaRecorder, recorders, starting,
                   sent, started, serverVars, pageVars, reported>>

NextRecorder ==
    \/ StartRecording
    \/ StartWhileRecording
    \/ \E ok \in BOOLEAN : StreamSettled(ok)
    \/ \E m \in 1..MaxStarts, nonEmpty \in BOOLEAN : Timeslice(m, nonEmpty)
    \/ StopRecording
    \/ \E m \in 1..MaxStarts, nonEmpty \in BOOLEAN : FinalData(m, nonEmpty)
    \/ \E m \in 1..MaxStarts : OnStop(m)
    \/ \E u \in uploads, ok \in BOOLEAN : UploadSettled(u, ok)

SpecRecorder == Init /\ [][NextRecorder]_vars

\* the service in a browser whose fetch calls all settle
SpecRecorderFair ==
    SpecRecorder /\ WF_vars(\E u \in uploads, ok \in BOOLEAN : UploadSettled(u, ok))

\* the service with recorders whose encoder may fail
NextFault ==
    \/ NextRecorder
    \/ \E m \in 1..MaxStarts : EncoderFault(m)
    \/ \E m \in 1..MaxStarts : OnRecorderError(m)

SpecFault == Init /\ [][NextFault]_vars

\* C1: as long as no upload has failed, the indices sent with the N non-empty
\* segments are exactly 0..N-1, each used once, whatever the start/stop
\* cycles and the order in which the uploads complete.
SentIndicesContiguous ==
    errors = {} =>
        /\ {sent[i].index : i \in DOMAIN sent} = 0..(Len(sent) - 1)
        /\ \A i, j \in DOMAIN sent : sent[i].index = sent[j].index => i = j

(***************************************************************************)
(* Properties of the ingestion endpoint.                                   *)
(***************************************************************************)
StudioIds == Studios \cup {"s9"}
UserIds == Users \cup {"p9"}

Done(r) == req[r].pc = "done"
Succeeded(r) == Done(r) /\ req[r].status = 200

\* the request passed the session check and the field validation
Valid(r) == req[r].pc # "idle" /\ req[r].status \notin {400, 401}

StudioOf(r) == req[r].form.studioId[1]
ParticipantOf(r) == req[r].form.participantId[1]
IndexOf(r) == ChunkIndexOf(req[r].form).value
LengthOf(r) == Len(BufferOf(req[r].form))
NameOf(r) == ObjectNameOf(req[r].form)

ForPair(r, s, p) == Valid(r) /\ StudioOf(r) = s /\ ParticipantOf(r) = p

RECURSIVE SumLengths(_)
SumLengths(rs) ==
    IF rs = {} THEN 0
    ELSE LET r == CHOOSE x \in rs : TRUE
         IN  LengthOf(r) + SumLengths(rs \ {r})

RECURSIVE SumReplaced(_)
SumReplaced(rs) ==
    IF rs = {} THEN 0
    ELSE LET r == CHOOSE x \in rs : TRUE
         IN  req[r].replaced + SumReplaced(rs \ {r})

RECURSIVE SumSizes(_)
SumSizes(rows) ==
    IF rows = {} THEN 0
    ELSE LET row == CHOOSE x \in rows : TRUE
         IN  row.size + SumSizes(rows \ {row})

\* the accumulated size the ledger holds for a pair
LedgerSize(s, p) == SumSizes(RowsOf(recordings, s, p))

\* the object names under the prefix studioId/participantId/
NamesOf(s, p) == {n \in DOMAIN objects : n[1] = s /\ n[3] = p}

RECURSIVE SumObjects(_)
SumObjects(ns) ==
    IF ns = {} THEN 0
    ELSE LET n == CHOOSE x \in ns : TRUE
         IN  Len(objects[n]) + SumObjects(ns \ {n})

StoredBytes(s, p) == SumObjects(NamesOf(s, p))

\* C2: two ingest requests for different indices of one (studioId,
\* participantId) that both ran to the end without an injected outage have
\* both succeeded, in every interleaving, and the ledger size of the pair is
\* the sum of the payload lengths of its successful ingests: no increment is
\* lost, no contention error is answered.
ConcurrentIngestsBothCounted ==
    \A r1, r2 \in Requests :
        ( /\ r1 # r2 /\ Done(r1) /\ Done(r2)
          /\ req[r1].fault = "none" /\ req[r2].fault = "none"
          /\ Valid(r1) /\ Valid(r2)
          /\ StudioOf(r1) \in Studios /\ ParticipantOf(r1) \in Users
          /\ ForPair(r2, StudioOf(r1), ParticipantOf(r1))
          /\ IndexOf(r1) # IndexOf(r2) )
        => /\ Succeeded(r1) /\ Succeeded(r2)
           /\ LedgerSize(StudioOf(r1), ParticipantOf(r1)) =
                SumLengths({r \in Requests :
                    Succeeded(r) /\ ForPair(r, StudioOf(r1), ParticipantOf(r1))})

\* C2 witness: both requests were the first chunks of the pair (each put
\* before any row existed), both succeeded, and the ledger holds both lengths.
ConcurrentFirstChunksCounted ==
    \E r1, r2 \in Requests :
        /\ r1 # r2 /\ Succeeded(r1) /\ Succeeded(r2)
        /\ ForPair(r2, StudioOf(r1), ParticipantOf(r1))
        /\ IndexOf(r1) # IndexOf(r2)
        /\ req[r1].fresh /\ req[r2].fresh
        /\ LedgerSize(StudioOf(r1), ParticipantOf(r1)) = LengthOf(r1) + LengthOf(r2)

\* C3: a request naming a studio that does not exist is answered 404; it puts
\* no object and touches no row, and nothing is stored or recorded for that
\* studio.
UnknownStudioRejectedUntouched ==
    \A r \in Requests :
        (Valid(r) /\ StudioOf(r) \notin Studios)
        => /\ Done(r) /\ req[r].status = 404
           /\ ~req[r].put /\ req[r].turn = 0
           /\ \A n \in DOMAIN objects : n[1] # StudioOf(r)
           /\ \A row \in recordings : row.studioId # StudioOf(r)

\* C3 witness: such a request was answered while the store holds an object.
UnknownStudioAnswered ==
    \E r \in Requests :
        /\ Valid(r) /\ StudioOf(r) \notin Studios /\ Done(r)
        /\ req[r].status = 404
        /\ DOMAIN objects # {}

\* C4: at most one Recording row per (studioId, participantId), and exactly
\* one once an ingest for the pair has succeeded.
OneRowPerPair ==
    \A s \in StudioIds, p \in UserIds :
        /\ Cardinality(RowsOf(recordings, s, p)) <= 1
        /\ (\E r \in Requests : Succeeded(r) /\ ForPair(r, s, p))
              => Cardinality(RowsOf(recordings, s, p)) = 1

\* C4 witness: two ingests of one pair succeeded and the table holds one row
\* for it, beside the row of another pair.
TwoIngestsOneRow ==
    \E r1, r2 \in Requests :
        /\ r1 # r2 /\ Succeeded(r1) /\ Succeeded(r2)
        /\ ForPair(r2, StudioOf(r1), ParticipantOf(r1))
        /\ Cardinality(RowsOf(recordings, StudioOf(r1), ParticipantOf(r1))) = 1

\* C5: after successful ingests for a pair its row has status "uploading" and
\* the sum of their payload lengths as size, and each ingest was answered the
\* cumulative size: the lengths of the ingests counted up to and including it.
LedgerAccumulates ==
    \A r \in Requests :
        Succeeded(r) =>
            LET mine == {q \in Requests :
                            Succeeded(q) /\ ForPair(q, StudioOf(r), ParticipantOf(r))}
            IN  /\ \E row \in RowsOf(recordings, StudioOf(r), ParticipantOf(r)) :
                      /\ row.status = "uploading"
                      /\ row.size = SumLengths(mine)
                /\ req[r].totalSize =
                      SumLengths({q \in mine : req[q].turn <= req[r].turn})

\* C5 witness: chunks of lengths 1 and 2 with distinct indices for a fresh
\* pair: the ledger says 3, and the later ingest was answered 3.
TwoChunksAccumulated ==
    \E r1, r2 \in Requests :
        /\ Succeeded(r1) /\ Succeeded(r2)
        /\ ForPair(r2, StudioOf(r1), ParticipantOf(r1))
        /\ IndexOf(r1) # IndexOf(r2)
        /\ LengthOf(r1) = 1 /\ LengthOf(r2) = 2
        /\ req[r1].turn < req[r2].turn
        /\ req[r1].totalSize = 1 /\ req[r2].totalSize = 3
        /\ LedgerSize(StudioOf(r1), ParticipantOf(r1)) = 3

\* the text is the numeral of a non-negative integer
IsNonNegativeNumeral(f) ==
    /\ f # Absent
    /\ f[1] # <<>>
    /\ \A i \in 1..Len(f[1]) : IsDigit(f[1][i])

\* C6: no authenticated request whose chunkIndex is not a non-negative
\* integer is accepted: it is never answered 200 and it writes neither an
\* object nor a row.
OddIndexRejected ==
    \A r \in Requests :
        ( /\ req[r].pc # "idle" /\ req[r].authed
          /\ ~IsNonNegativeNumeral(req[r].form.chunkIndex) )
        => /\ req[r].status # 200
           /\ ~req[r].put /\ req[r].turn = 0

\* C7: no step changes or removes the bytes stored under an object name.
StoredObjectsImmutable ==
    [][\A n \in DOMAIN objects :
          n \in DOMAIN objects' /\ objects'[n] = objects[n]]_vars

\* the ingests of the pair that stored an object have all been counted, none
\* is under way, and one object name was ingested more than once
ReingestedPair(s, p) ==
    /\ \A r \in Requests :
           ForPair(r, s, p) => (Done(r) /\ (req[r].put <=> Succeeded(r)))
    /\ \E r1, r2 \in Requests :
           /\ r1 # r2 /\ Succeeded(r1) /\ Succeeded(r2)
           /\ ForPair(r1, s, p) /\ ForPair(r2, s, p)
           /\ NameOf(r1) = NameOf(r2)

\* C8 as stated: after successful re-ingests of an object name the ledger
\* size of the pair exceeds the bytes stored for it.
ReingestLedgerExceedsStore ==
    \A s \in Studios, p \in Users :
        ReingestedPair(s, p) => LedgerSize(s, p) > StoredBytes(s, p)

\* C8 as amended: every successful ingest, re-ingests included, adds its
\* payload length to the ledger while each object name holds one object, the
\* payload of one of its ingests; so the ledger size is the stored bytes plus
\* the lengths of the objects the re-ingests replaced, never below the stored
\* bytes, and above them exactly when a replaced object was not empty.
ReingestDoubleCounts ==
    \A s \in Studios, p \in Users :
        ReingestedPair(s, p) =>
            LET mine == {r \in Requests : Succeeded(r) /\ ForPair(r, s, p)}
            IN  /\ LedgerSize(s, p) = SumLengths(mine)
                /\ NamesOf(s, p) = {NameOf(r) : r \in mine}
                /\ \A n \in NamesOf(s, p) :
                       \E r \in mine : NameOf(r) = n /\ objects[n] = BufferOf(req[r].form)
                /\ LedgerSize(s, p) = StoredBytes(s, p) + SumReplaced(mine)
                /\ LedgerSize(s, p) >= StoredBytes(s, p)
                /\ (LedgerSize(s, p) > StoredBytes(s, p))
                       <=> (\E r \in mine : req[r].replaced > 0)

\* C8 witness: one index ingested twice with non-empty payloads: the ledger
\* counts both, the store holds the later one alone.
ReingestCountedTwice ==
    \E s \in Studios, p \in Users :
        /\ ReingestedPair(s, p)
        /\ Cardinality(NamesOf(s, p)) = 1
        /\ LedgerSize(s, p) = 3
        /\ StoredBytes(s, p) < 3

\* C9: the ledger counts no chunk whose object was not stored.  A counted
\* ingest did its put before and its object is in the store; a failed put
\* ends the request with the ledger untouched; a request that failed after
\* its put leaves its object in the store and out of the ledger, so every row
\* counts exactly the counted ingests of its pair and never more than was put.
LedgerCountsOnlyStoredChunks ==
    /\ \A r \in Requests :
          /\ req[r].turn > 0
                => /\ req[r].put /\ NameOf(r) \in DOMAIN objects
                   /\ RowsOf(recordings, StudioOf(r), ParticipantOf(r)) # {}
          /\ req[r].fault = "store"
                => (Done(r) /\ req[r].status = 500 /\ ~req[r].put /\ req[r].turn = 0)
          /\ (Valid(r) /\ req[r].put /\ Done(r) /\ req[r].status # 200)
                => (req[r].turn = 0 /\ NameOf(r) \in DOMAIN objects)
    /\ \A row \in recordings :
          /\ \E r \in Requests :
                ForPair(r, row.studioId, row.participantId) /\ req[r].turn > 0
          /\ row.size =
                SumLengths({r \in Requests :
                    ForPair(r, row.studioId, row.participantId) /\ req[r].turn > 0})
          /\ row.size <=
                SumLengths({r \in Requests :
                    ForPair(r, row.studioId, row.participantId) /\ req[r].put})

\* C9 witness: a request failed between its put and the ledger update: its
\* object is stored, the ledger of the pair is smaller than what was put, and
\* another request failed at its put.
OrphanedObjectUndercounted ==
    \E r, q \in Requests :
        /\ Valid(r) /\ Done(r) /\ req[r].put /\ req[r].fault = "db"
        /\ NameOf(r) \in DOMAIN objects
        /\ LedgerSize(StudioOf(r), ParticipantOf(r)) <
              SumLengths({x \in Requests :
                  ForPair(x, StudioOf(r), ParticipantOf(r)) /\ req[x].put})
        /\ req[q].fault = "store"

\* C10: no step lowers the size of a Recording row or removes the row.
SizeNeverDecreases ==
    [][\A row \in recordings :
          \E next \in recordings' : next.id = row.id /\ next.size >= row.size]_vars

\* C10 witness: a row that was created by one ingest and grown by a later,
\* smaller one.
RowHasGrown ==
    \E r1, r2 \in Requests :
        /\ Succeeded(r1) /\ Succeeded(r2)
        /\ ForPair(r2, StudioOf(r1), ParticipantOf(r1))
        /\ req[r1].turn < req[r2].turn
        /\ LengthOf(r1) > LengthOf(r2)
        /\ LedgerSize(StudioOf(r1), ParticipantOf(r1)) = LengthOf(r1) + LengthOf(r2)

\* C11: a request naming a participant that does not exist (in an existing
\* studio, with no injected outage) is answered 404 and writes neither an
\* object nor a row.
UnknownParticipantRejectedUntouched ==
    \A r \in Requests :
        ( /\ Valid(r) /\ req[r].fault = "none"
          /\ StudioOf(r) \in Studios /\ ParticipantOf(r) \notin Users )
        => /\ ~req[r].put /\ req[r].turn = 0
           /\ Done(r) => req[r].status = 404

(***************************************************************************)
(* Object keys and listChunks (lib/minio).                                 *)
(***************************************************************************)
\* padStart(5, '0'): the width of the index in an object name
KeyWidth == 5

\* the largest index whose numeral fits the width
LastPaddedIndex == 10^KeyWidth - 1

\* Indices uploadChunk is called with: around every change of the number of
\* digits, from 0 to the largest index that fits.
KeyIndices ==
    {i \in {0, 1} \cup UNION {{10^k - 1, 10^k} : k \in 1..KeyWidth} :
        i <= LastPaddedIndex}

\* the characters of the pieces object names are built from
Spell(e) ==
    CASE e = "chunk-" -> <<"c", "h", "u", "n", "k", "-">>
      [] e = ".webm"  -> <<".", "w", "e", "b", "m">>
      [] e = "s1"     -> <<"s", "1">>
      [] e = "s9"     -> <<"s", "9">>
      [] e = "p1"     -> <<"p", "1">>
      [] e = "p2"     -> <<"p", "2">>
      [] e = "p9"     -> <<"p", "9">>
      [] OTHER        -> <<e>>

\* the string a template literal builds: its pieces, character by character
RECURSIVE Flatten(_)
Flatten(pieces) ==
    IF pieces = <<>> THEN <<>> ELSE Spell(Head(pieces)) \o Flatten(Tail(pieces))

\* UTF-16 code units of the characters that occur in object names
CodeUnit(c) ==
    CASE IsDigit(c) -> 48 + DigitValue(c)
      [] c = "-" -> 45
      [] c = "." -> 46
      [] c = "/" -> 47
      [] c = "b" -> 98
      [] c = "c" -> 99
      [] c = "e" -> 101
      [] c = "h" -> 104
      [] c = "k" -> 107
      [] c = "m" -> 109
      [] c = "n" -> 110
      [] c = "p" -> 112
      [] c = "s" -> 115
      [] c = "u" -> 117
      [] c = "w" -> 119

\* a < b for two strings: the comparison Array.prototype.sort() makes when it
\* is given no comparator (code unit by code unit, a proper prefix first)
RECURSIVE LexLess(_, _)
LexLess(a, b) ==
    IF b = <<>> THEN FALSE
    ELSE IF a = <<>> THEN TRUE
    ELSE IF Head(a) = Head(b) THEN LexLess(Tail(a), Tail(b))
    ELSE CodeUnit(Head(a)) < CodeUnit(Head(b))

KeyLess(n1, n2) == LexLess(Flatten(n1), Flatten(n2))

\* chunks.sort() of the names pushed by the listing stream
RECURSIVE SortNames(_)
SortNames(names) ==
    IF names = {} THEN <<>>
    ELSE LET least == CHOOSE n \in names :
                          \A other \in names \ {n} : KeyLess(n, other)
         IN  <<least>> \o SortNames(names \ {least})

\* string s starts with string prefix
HasPrefix(s, prefix) ==
    Len(s) >= Len(prefix) /\ SubSeq(s, 1, Len(prefix)) = prefix

\* listObjectsV2(BUCKET_NAME, prefix, true): the names under the prefix
ListObjects(bucket, prefix) ==
    {n \in DOMAIN bucket : HasPrefix(Flatten(n), prefix)}

\* uploadChunk of lib/minio called with any index that fits the width
UploadChunk(studioId, participantId, index, buffer) ==
    /\ Cardinality(DOMAIN objects) < MaxObjects
    /\ objects' = PutObject(objects, ObjectName(studioId, participantId, index),
                            buffer)
    /\ UNCHANGED <<req, recordings, listing, busVars, clientVars>>

\* listChunks(studioId, participantId)
ListChunks(studioId, participantId) ==
    /\ listing' = [studioId |-> studioId, participantId |-> participantId,
                   chunks |-> SortNames(ListObjects(objects,
                                 Flatten(<<studioId, "/", participantId, "/">>)))]
    /\ UNCHANGED <<req, objects, recordings, busVars, clientVars>>

NextKeys ==
    \/ \E p \in Users, i \in KeyIndices : UploadChunk("s1", p, i, <<0>>)
    \/ \E p \in Users : ListChunks("s1", p)

SpecKeys == Init /\ [][NextKeys]_vars

\* the index in an object name made by uploadChunk
IndexOfName(n) == DigitsValue(SubSeq(n, 6, Len(n) - 1), 0)

\* C12: for indices i < j that fit the width (0..99999) the key of (studioId,
\* participantId, i) sorts before the key of (studioId, participantId, j), and
\* what listChunks resolved is the participant's keys in index order.
KeysSortInIndexOrder ==
    /\ \A n1, n2 \in DOMAIN objects :
          (n1[1] = n2[1] /\ n1[3] = n2[3] /\ IndexOfName(n1) < IndexOfName(n2))
              => KeyLess(n1, n2)
    /\ \A a, b \in DOMAIN listing.chunks :
          a < b => IndexOfName(listing.chunks[a]) < IndexOfName(listing.chunks[b])
    /\ \A a \in DOMAIN listing.chunks :
          /\ listing.chunks[a][1] = listing.studioId
          /\ listing.chunks[a][3] = listing.participantId

\* C12 witness: a listing of two keys, the index of the first with fewer
\* digits and a larger first digit than the second, while the bucket holds an
\* object of another participant.
ListedAcrossDigitCounts ==
    /\ Len(listing.chunks) = 2
    /\ IndexOfName(listing.chunks[1]) = 9
    /\ IndexOfName(listing.chunks[2]) = 10000
    /\ \E n \in DOMAIN objects : n[3] # listing.participantId

(***************************************************************************)
(* The call page: the recording-state handler drives the service.          *)
(***************************************************************************)
\* (variant: startRecording without the check of isRecording)
StartRecordingCallUnguarded ==
    /\ started' = started + 1
    /\ IF localStream
       THEN CreateAndStart /\ UNCHANGED starting
       ELSE /\ starting' = starting + 1
            /\ UNCHANGED <<recorders, mediaRecorder, isRecording>>

\* startRecording as the handler calls it, up to its first await or its end
StartRecordingCall ==
    IF isRecording
    THEN UNCHANGED <<started, starting, recorders, mediaRecorder, isRecording>>
    ELSE /\ started' = started + 1
         /\ IF localStream
            THEN CreateAndStart /\ UNCHANGED starting
            ELSE /\ starting' = starting + 1
                 /\ UNCHANGED <<recorders, mediaRecorder, isRecording>>

\* stopRecording as the handler calls it; stop() of a recorder that is
\* already inactive changes nothing (it returns or throws, by user agent)
StopRecordingCall ==
    IF isRecording /\ mediaRecorder # 0
    THEN IF recorders[mediaRecorder].state = "recording"
         THEN recorders' =
                  [recorders EXCEPT
                     ![mediaRecorder] = StoppedRecorder(recorders[mediaRecorder])]
         ELSE UNCHANGED recorders
    ELSE UNCHANGED recorders

\* socket.on('recording-state'), page.tsx lines 113-123
OnRecordingState(newState) ==
    /\ Len(received) < MaxEvents
    /\ (newState /\ ~isRecording) => started < MaxStarts
    /\ received' = Append(received, newState)
    /\ storeIsRecording' = newState
    /\ IF newState
       THEN StartRecordingCall
       ELSE /\ StopRecordingCall
            /\ UNCHANGED <<started, starting, mediaRecorder, isRecording>>
    /\ UNCHANGED <<chunkIndex, localStream, uploads, sent, uploaded, errors,
                   reported, cleanedAt, serverVars>>

NextCall ==
    \/ \E newState \in BOOLEAN : OnRecordingState(newState)
    \/ \E ok \in BOOLEAN : StreamSettled(ok)
    \/ \E m \in 1..MaxStarts, nonEmpty \in BOOLEAN : Timeslice(m, nonEmpty)
    \/ \E m \in 1..MaxStarts, nonEmpty \in BOOLEAN : FinalData(m, nonEmpty)
    \/ \E m \in 1..MaxStarts : OnStop(m)
    \/ \E u \in uploads, ok \in BOOLEAN : UploadSettled(u, ok)

SpecCall == Init /\ [][NextCall]_vars

\* the recorders that are capturing
ActiveRecorders == {m \in DOMAIN recorders : recorders[m].state = "recording"}

\* no start is waiting for its stream and no recorder event is undelivered
Settled ==
    starting = 0 /\ \A m \in DOMAIN recorders : recorders[m].events = <<>>

LastReceived == received[Len(received)]

\* C13: a recording-state event that carries the value of the event before
\* it leaves the client as it was: the store's isRecording, the service's
\* recorders (none is created, none is stopped), its flag and stream, and the
\* starts it has under way, whenever the event arrives.
RepeatedValueChangesNothing ==
    [][( /\ received # <<>>
         /\ Len(received') = Len(received) + 1
         /\ received'[Len(received')] = LastReceived )
       => /\ storeIsRecording' = storeIsRecording
          /\ recorders' = recorders /\ mediaRecorder' = mediaRecorder
          /\ starting' = starting
          /\ isRecording' = isRecording /\ localStream' = localStream
          /\ chunkIndex' = chunkIndex]_vars

\* C14: when every received event has settled (and no device or encoder
\* failed), a recorder is capturing exactly if the last received value is
\* true, and the store's isRecording is that value.
LastValueApplied ==
    ( /\ received # <<>> /\ Settled
      /\ reported.device = 0 /\ reported.encoder = 0 )
    => /\ storeIsRecording = LastReceived
       /\ (ActiveRecorders # {}) <=> LastReceived

\* C15: startRecording called while isRecording is true changes nothing: no
\* recorder and no stream is created or awaited, isRecording, chunkIndex and
\* the active recorder stay as they are, and no error is reported.
StartWhileCapturingIsNoOp ==
    [][( /\ isRecording
         /\ received' = Append(received, TRUE) )
       => /\ isRecording'
          /\ recorders' = recorders /\ mediaRecorder' = mediaRecorder
          /\ localStream' = localStream /\ chunkIndex' = chunkIndex
          /\ starting' = starting /\ started' = started
          /\ reported' = reported /\ errors' = errors]_vars

\* C15 witness: true was received twice and only the first call went past
\* the check: one recorder, capturing, after a segment was sent.
StartIgnoredWhileCapturing ==
    /\ received = <<TRUE, TRUE>>
    /\ started = 1 /\ starting = 0
    /\ Len(recorders) = 1 /\ ActiveRecorders = {1}
    /\ isRecording /\ sent # <<>>

\* the upload attempts made for the final dataavailable of recorder m
FlushesOf(m) == {i \in DOMAIN sent : sent[i].recorder = m /\ sent[i].final}

\* the stop event of recorder m has been delivered to onstop
StopDelivered(m) ==
    recorders[m].state = "inactive" /\ recorders[m].events = <<>>

\* the trailing data of a stopped recorder is handed to uploadChunk exactly
\* once (never when it is empty), and onstop runs after that
FlushedOnceThenIdle ==
    \A m \in DOMAIN recorders :
        /\ Cardinality(FlushesOf(m)) <= 1
        /\ (recorders[m].trailing = "data") <=> (FlushesOf(m) # {})
        /\ StopDelivered(m) => recorders[m].trailing # "none"
        /\ recorders[m].state = "recording" => recorders[m].trailing = "none"

\* as long as no upload has failed, the flush goes out under the index after
\* those of the segments handed over before it
FlushUnderNextIndex ==
    errors = {} =>
        \A m \in DOMAIN recorders :
            \A i \in FlushesOf(m) : sent[i].index = i - 1

\* C16: stopRecording flushes the trailing data exactly once, under the next
\* index, and isRecording becomes false only after that flush.
StopFlushesOnceUnderNextIndex == FlushedOnceThenIdle /\ FlushUnderNextIndex

\* C17: a startRecording whose device acquisition failed has called onError
\* and done nothing else: every call that passed the first check is still
\* waiting, or failed and was reported, or created one recorder; segments
\* come from created recorders only; and a service all of whose attempts
\* failed is idle: isRecording false, no recorder, no stream, no segment.
DeviceFailureLeavesIdle ==
    /\ Len(recorders) + starting + reported.device = started
    /\ \A i \in DOMAIN sent : sent[i].recorder \in DOMAIN recorders
    /\ reported.device = started
          => /\ ~isRecording /\ recorders = <<>> /\ mediaRecorder = 0
             /\ ~localStream /\ sent = <<>> /\ uploads = {}

\* C17 witness: two attempts, both failed and reported, nothing waiting.
BothAcquisitionsFailed ==
    /\ started = 2 /\ reported.device = 2 /\ starting = 0
    /\ ~isRecording

\* the event recorder m's handlers are given in this step
Delivered(m, event) ==
    /\ m \in DOMAIN recorders
    /\ recorders[m].events # <<>> /\ Head(recorders[m].events) = event
    /\ recorders'[m].events = Tail(recorders[m].events)

Attempted(i) ==
    \/ \E u \in uploads : u.seg = i
    \/ \E j \in DOMAIN uploaded : uploaded[j].seg = i
    \/ i \in errors

\* C19: a recording recorder can cut its next segment whatever uploads are in
\* flight or have failed (up to the number of segments of the model), and
\* every non-empty segment produced was handed to uploadChunk when produced.
CaptureNeverWaitsOnUploads ==
    /\ \A m \in DOMAIN recorders :
          (recorders[m].state = "recording" /\ Len(sent) < MaxSegments)
              => ENABLED Timeslice(m, TRUE)
    /\ \A i \in DOMAIN sent : Attempted(i)
    /\ \A u \in uploads : u.seg \in DOMAIN sent /\ sent[u.seg] = u

\* C19 witness: the second segment was produced and handed over while the
\* upload of the first was in flight; both are in flight and the recorder
\* still records.
ProducedDuringUploads ==
    /\ Len(sent) = 2
    /\ {u.seg : u \in uploads} = {1, 2}
    /\ ~sent[2].final
    /\ ActiveRecorders # {}

\* C20: the step in which an upload fails reports it through onError and
\* touches nothing of the capture: isRecording, the recorders (none is
\* stopped), the stream, the starts under way and chunkIndex stay as they
\* are, and the other uploads stay in flight.
FailedUploadLeavesCapture ==
    [][\A u \in uploads :
          (u \notin uploads' /\ uploaded' = uploaded)
              => /\ errors' = errors \cup {u.seg} /\ u.seg \notin errors
                 /\ isRecording' = isRecording
                 /\ recorders' = recorders /\ mediaRecorder' = mediaRecorder
                 /\ localStream' = localStream /\ starting' = starting
                 /\ chunkIndex' = chunkIndex
                 /\ uploads' = uploads \ {u}
                 /\ sent' = sent]_vars

\* C20 witness: the upload of the first segment failed; the recorder went on,
\* a later segment was produced and uploaded, and the service still records.
UploadedAfterFailedUpload ==
    /\ 1 \in errors
    /\ \E j \in DOMAIN uploaded : uploaded[j].seg > 1
    /\ isRecording /\ localStream
    /\ mediaRecorder \in ActiveRecorders

(***************************************************************************)
(* The Socket.io server (initializeSocketServer).                          *)
(***************************************************************************)
\* a message of a client as its handler gets it; isRecording and chunkIndex
\* are read by the handlers of recording-state and chunk-uploaded only
Message(type, k, x, v, index) ==
    [type |-> type, socket |-> k, studioId |-> x, isRecording |-> v,
     chunkIndex |-> index]

\* an event as emitted to a socket (studioId and from are history: the room
\* it was emitted to and the socket whose message caused it)
Event(type, x, from, v, index) ==
    [type |-> type, studioId |-> x, from |-> from, isRecording |-> v,
     chunkIndex |-> index]

\* emit of a broadcast operator: the event goes to each of the targets
Emit(targets, event) ==
    inbox' = [k \in SocketIds |->
                 IF k \in targets THEN Append(inbox[k], event) ELSE inbox[k]]

\* io.on('connection')
Connect(k) ==
    /\ sockets[k] = "new"
    /\ sockets' = [sockets EXCEPT ![k] = "connected"]
    /\ UNCHANGED <<rooms, inbox, handled, req, objects, recordings, listing,
                   clientVars>>

\* (variant: the joining socket is sent the last recording-state of the room)
JoinStudioReplaying(k, x) ==
    /\ sockets[k] = "connected" /\ Len(handled) < MaxMessages
    /\ handled' = Append(handled, Message("join-studio", k, x, FALSE, 0))
    /\ rooms' = [rooms EXCEPT ![x] = @ \cup {k}]
    /\ inbox' = [t \in SocketIds |->
                   IF t \in rooms[x] \ {k}
                   THEN Append(inbox[t], Event("participant-joined", x, k, FALSE, 0))
                   ELSE IF t = k /\ rooms[x] \ {k} # {}
                   THEN Append(inbox[t],
                               Event("recording-state", x, k,
                                     \E m \in rooms[x] \ {k} :
                                         \E i \in DOMAIN inbox[m] :
                                             /\ inbox[m][i].type = "recording-state"
                                             /\ inbox[m][i].isRecording,
                                     0))
                   ELSE inbox[t]]
    /\ UNCHANGED <<sockets, req, objects, recordings, listing, clientVars>>

\* socket.on('join-studio'), lines 78-88
JoinStudio(k, x) ==
    /\ sockets[k] = "connected" /\ Len(handled) < MaxMessages
    /\ handled' = Append(handled, Message("join-studio", k, x, FALSE, 0))
    /\ rooms' = [rooms EXCEPT ![x] = @ \cup {k}]
    /\ Emit(rooms'[x] \ {k}, Event("participant-joined", x, k, FALSE, 0))
    /\ UNCHANGED <<sockets, req, objects, recordings, listing, clientVars>>

\* socket.on('leave-studio'), lines 90-100
LeaveStudio(k, x) ==
    /\ sockets[k] = "connected" /\ Len(handled) < MaxMessages
    /\ handled' = Append(handled, Message("leave-studio", k, x, FALSE, 0))
    /\ rooms' = [rooms EXCEPT ![x] = @ \ {k}]
    /\ Emit(rooms'[x] \ {k}, Event("participant-left", x, k, FALSE, 0))
    /\ UNCHANGED <<sockets, req, objects, recordings, listing, clientVars>>

\* (variant: socket.to(studioId) in place of io.to(studioId))
RecordingStateToOthers(k, x, v) ==
    /\ sockets[k] = "connected" /\ Len(handled) < MaxMessages
    /\ handled' = Append(handled, Message("recording-state", k, x, v, 0))
    /\ Emit(rooms[x] \ {k}, Event("recording-state", x, k, v, 0))
    /\ UNCHANGED <<sockets, rooms, req, objects, recordings, listing,
                   clientVars>>

\* socket.on('recording-state'), lines 102-108
RecordingState(k, x, v) ==
    /\ sockets[k] = "connected" /\ Len(handled) < MaxMessages
    /\ handled' = Append(handled, Message("recording-state", k, x, v, 0))
    /\ Emit(rooms[x], Event("recording-state", x, k, v, 0))
    /\ UNCHANGED <<sockets, rooms, req, objects, recordings, listing,
                   clientVars>>

\* (variant: socket.broadcast.emit, to every other connected socket)
ChunkUploadedBroadcast(k, x, index) ==
    /\ sockets[k] = "connected" /\ Len(handled) < MaxMessages
    /\ handled' = Append(handled, Message("chunk-uploaded", k, x, FALSE, index))
    /\ Emit({t \in SocketIds : sockets[t] = "connected"} \ {k},
            Event("chunk-uploaded", x, k, FALSE, index))
    /\ UNCHANGED <<sockets, rooms, req, objects, recordings, listing,
                   clientVars>>

\* socket.on('chunk-uploaded'), lines 110-120
ChunkUploaded(k, x, index) ==
    /\ sockets[k] = "connected" /\ Len(handled) < MaxMessages
    /\ handled' = Append(handled, Message("chunk-uploaded", k, x, FALSE, index))
    /\ Emit(rooms[x] \ {k}, Event("chunk-uploaded", x, k, FALSE, index))
    /\ UNCHANGED <<sockets, rooms, req, objects, recordings, listing,
                   clientVars>>

\* the socket goes away: Socket.io takes it out of its rooms, and the
\* disconnect handler, lines 122-125, logs
Disconnect(k) ==
    /\ sockets[k] = "connected"
    /\ sockets' = [sockets EXCEPT ![k] = "gone"]
    /\ rooms' = [x \in RoomIds |-> rooms[x] \ {k}]
    /\ UNCHANGED <<inbox, handled, req, objects, recordings, listing,
                   clientVars>>

NextBus ==
    \/ \E k \in SocketIds : Connect(k)
    \/ \E k \in SocketIds, x \in RoomIds : JoinStudio(k, x)
    \/ \E k \in SocketIds, x \in RoomIds : LeaveStudio(k, x)
    \/ \E k \in SocketIds, x \in RoomIds, v \in BOOLEAN : RecordingState(k, x, v)
    \/ \E k \in SocketIds, x \in RoomIds : ChunkUploaded(k, x, 0)
    \/ \E k \in SocketIds : Disconnect(k)

SpecBus == Init /\ [][NextBus]_vars

\* the last message handled in this step, when there is one
Handles(m) == handled' = Append(handled, m)

\* the recording-state events socket k was sent
RecordingStatesOf(k) ==
    SelectSeq(inbox[k], LAMBDA e : e.type = "recording-state")

\* isRecording of the store of the page behind socket k: false at first
\* (studio-store), then the value of the last recording-state event
StoreOf(k) ==
    IF RecordingStatesOf(k) = <<>> THEN FALSE
    ELSE RecordingStatesOf(k)[Len(RecordingStatesOf(k))].isRecording

\* C21: when the server handles recording-state {studioId, isRecording: v}
\* of any socket, every socket joined to that studio at that moment, the
\* sender included when it is joined, is sent one recording-state event
\* carrying v.
RecordingStateReachesRoom ==
    [][\A k \in SocketIds, x \in RoomIds, v \in BOOLEAN :
          Handles(Message("recording-state", k, x, v, 0))
              => \A t \in rooms[x] :
                    /\ Len(inbox'[t]) = Len(inbox[t]) + 1
                    /\ SubSeq(inbox'[t], 1, Len(inbox[t])) = inbox[t]
                    /\ inbox'[t][Len(inbox'[t])].type = "recording-state"
                    /\ inbox'[t][Len(inbox'[t])].isRecording = v]_vars

\* C21 witness: two sockets joined to one studio, one of them sent
\* recording-state true once, and both observe isRecording = true.
BothObserveRecording ==
    /\ rooms["s1"] = {"k1", "k2"}
    /\ Len(SelectSeq(handled, LAMBDA m : m.type = "recording-state")) = 1
    /\ \E i \in DOMAIN handled :
          handled[i] = Message("recording-state", "k1", "s1", TRUE, 0)
    /\ Len(RecordingStatesOf("k1")) = 1 /\ Len(RecordingStatesOf("k2")) = 1
    /\ StoreOf("k1") /\ StoreOf("k2")

\* C22: the server replays nothing: a socket is sent a recording-state event
\* only in the step that handles a recording-state message for a room it is
\* joined to, so joining a studio brings none, and a socket that joined
\* after the broadcast keeps isRecording at its initial false.
NoReplayOnJoin ==
    [][\A k \in SocketIds :
          /\ RecordingStatesOf(k)' # RecordingStatesOf(k)
                => \E from \in SocketIds, x \in RoomIds, v \in BOOLEAN :
                       /\ Handles(Message("recording-state", from, x, v, 0))
                       /\ k \in rooms[x]
          /\ (\E x \in RoomIds : Handles(Message("join-studio", k, x, FALSE, 0)))
                => /\ inbox'[k] = inbox[k]
                   /\ StoreOf(k)' = StoreOf(k)]_vars

\* C22 witness: a socket of the studio observes isRecording = true, and a
\* socket that joined the studio after that broadcast has been sent no
\* recording-state event: its isRecording is false.
LateJoinerLearnsNothing ==
    /\ rooms["s1"] = {"k1", "k2"}
    /\ StoreOf("k1") /\ ~StoreOf("k2")
    /\ RecordingStatesOf("k2") = <<>>
    /\ \E i, j \in DOMAIN handled :
          /\ i < j
          /\ handled[i].type = "recording-state" /\ handled[i].studioId = "s1"
          /\ handled[j] = Message("join-studio", "k2", "s1", FALSE, 0)

\* The socket of the studio's host: the user whose id is studio.hostId
HostSocket == [x \in RoomIds |-> "k1"]

\* C23: only the host can change the recording state: a recording-state
\* message from a socket that is not the host of the studio, or that is not
\* joined to it, causes no broadcast (no inbox changes).
OnlyHostChangesRecordingState ==
    [][\A k \in SocketIds, x \in RoomIds, v \in BOOLEAN :
          (/\ Handles(Message("recording-state", k, x, v, 0))
           /\ (k # HostSocket[x] \/ k \notin rooms[x]))
              => inbox' = inbox]_vars

(***************************************************************************)
(* Ingest of a recorder's chunks followed by listChunks.                   *)
(***************************************************************************)
\* the requests the MediaRecorderService sends (authenticated, its own
\* forms), handled concurrently while the object store and the database are
\* up, and listChunks calls at any moment
NextIngest ==
    \/ \E r \in Requests, form \in ClientForms : Post(r, TRUE, form)
    \/ \E r \in Requests : StoreChunk(r, TRUE)
    \/ \E r \in Requests : UpsertRecording(r, TRUE)
    \/ \E p \in Users : ListChunks("s1", p)

SpecIngest == Init /\ [][NextIngest]_vars

\* the requests that carried a chunk of participant p
RequestsOf(p) ==
    {r \in Requests : req[r].pc # "idle" /\ req[r].form.participantId = Field(p)}

\* every request of p was answered 200 and no two carried the same index
IngestedDistinct(p) ==
    /\ \A r \in RequestsOf(p) : req[r].pc = "done" /\ req[r].status = 200
    /\ \A r1, r2 \in RequestsOf(p) :
          r1 # r2 => ChunkIndexOf(req[r1].form).value # ChunkIndexOf(req[r2].form).value

RECURSIVE TotalLength(_)
TotalLength(rs) ==
    IF rs = {} THEN 0
    ELSE LET r == CHOOSE r \in rs : TRUE
         IN  Len(BufferOf(req[r].form)) + TotalLength(rs \ {r})

\* C24: once a set of chunks of one participant with pairwise distinct
\* indices has been ingested, the stored objects, the final ledger size and
\* what listChunks resolves are determined by the set of chunks alone, in
\* whatever order the requests arrived, stored and upserted: one object per
\* chunk holding its bytes, a ledger size equal to the sum of the lengths, and
\* a listing of the keys by rising index.
ResultIndependentOfArrivalOrder ==
    \A p \in Users :
        (RequestsOf(p) # {} /\ IngestedDistinct(p)) =>
            LET names == {ObjectNameOf(req[r].form) : r \in RequestsOf(p)}
            IN  /\ {n \in DOMAIN objects : n[3] = p} = names
                /\ \A r \in RequestsOf(p) :
                      objects[ObjectNameOf(req[r].form)] = BufferOf(req[r].form)
                /\ \E row \in recordings :
                      /\ RowsOf(recordings, "s1", p) = {row}
                      /\ row.size = TotalLength(RequestsOf(p))
                /\ (/\ listing.participantId = p
                    /\ Len(listing.chunks) = Cardinality(names))
                      => /\ {listing.chunks[a] : a \in DOMAIN listing.chunks} = names
                         /\ \A a, b \in DOMAIN listing.chunks :
                               a < b => IndexOfName(listing.chunks[a])
                                           < IndexOfName(listing.chunks[b])

\* C24 witness: the chunk of index 1 arrived before the chunk of index 0 of
\* the same participant, the later one was stored and upserted first, both
\* were answered 200 and listChunks has resolved both keys.
IngestedAgainstIndexOrder ==
    /\ RequestsOf("p1") = {1, 2} /\ IngestedDistinct("p1")
    /\ ChunkIndexOf(req[1].form).value = 1 /\ ChunkIndexOf(req[2].form).value = 0
    /\ BufferOf(req[1].form) # BufferOf(req[2].form)
    /\ req[2].turn = 1 /\ req[1].turn = 2
    /\ listing.participantId = "p1" /\ Len(listing.chunks) = 2

\* C25: stopRecording cancels no upload: the step that stops the recorder
\* leaves the uploads in flight as they are; an upload leaves flight only by
\* settling, reported as an error on failure and, on success, given to
\* onChunkUploaded with chunkIndex advanced by one; and whenever uploads are
\* in flight there comes a moment when all of them have settled (a segment
\* is sent once, so none of them is in flight again).
StopCancelsNoUpload ==
    /\ [][/\ (/\ mediaRecorder # 0
              /\ recorders[mediaRecorder].state = "recording"
              /\ recorders'[mediaRecorder].state = "inactive")
                 => uploads' = uploads
          /\ \A u \in uploads :
                u \notin uploads' =>
                    \/ /\ errors' = errors \cup {u.seg}
                       /\ uploaded' = uploaded /\ chunkIndex' = chunkIndex
                    \/ /\ Len(uploaded') = Len(uploaded) + 1
                       /\ uploaded'[Len(uploaded')].seg = u.seg
                       /\ chunkIndex' = chunkIndex + 1
                       /\ errors' = errors]_vars
    /\ (uploads # {}) ~> (uploads = {})

\* C25 witness: the final segment was sent under index 0 like the first, so
\* the upload of the first was in flight when stopRecording was called, and
\* that upload has since succeeded: it was given to onChunkUploaded and
\* chunkIndex has advanced.
UploadSucceededAfterStop ==
    /\ Len(sent) = 2
    /\ ~sent[1].final /\ sent[1].index = 0
    /\ sent[2].final /\ sent[2].index = 0 /\ sent[2].recorder = sent[1].recorder
    /\ \E j \in DOMAIN uploaded : uploaded[j].seg = 1
    /\ chunkIndex >= 1

\* onChunkUploaded is called once for each segment whose upload succeeded
\* and for no other
OnChunkUploadedOncePerSegment ==
    \A seg \in DOMAIN sent :
        LET calls == {j \in DOMAIN uploaded : uploaded[j].seg = seg}
        IN  IF sent[seg] \in uploads \/ seg \in errors
            THEN calls = {}
            ELSE Cardinality(calls) = 1

\* C26: onChunkUploaded(i) is called exactly once for each segment whose
\* upload succeeded, and i is the index under which that segment was sent to
\* the server, also when several uploads are in flight at the same time.
OnChunkUploadedReportsSentIndex ==
    /\ OnChunkUploadedOncePerSegment
    /\ \A j \in DOMAIN uploaded : uploaded[j].index = sent[uploaded[j].seg].index

\* a failed upload changes neither chunkIndex nor what was sent or reported,
\* and a failed segment is not in flight again and was never given to
\* onChunkUploaded
FailedSegmentDropped ==
    /\ [][errors' # errors
            => chunkIndex' = chunkIndex /\ uploaded' = uploaded /\ sent' = sent]_vars
    /\ [](/\ \A i \in DOMAIN sent : sent[i].seg = i
          /\ \A f \in errors :
                /\ sent[f] \notin uploads
                /\ \A j \in DOMAIN uploaded : uploaded[j].seg # f)

\* C27: when the upload of a segment fails, chunkIndex is not advanced, the
\* segment is never sent again and onChunkUploaded is not called for it, and
\* the next non-empty segment is uploaded under the index of the failed one:
\* while the segment sent last has failed and a recorder is capturing, the
\* index ondataavailable passes to uploadChunk is the failed segment's, and a
\* step that sends the next segment sends it under that index.
FailedIndexReusedByNext ==
    /\ FailedSegmentDropped
    /\ []((/\ Len(sent) \in errors
           /\ \E m \in DOMAIN recorders : recorders[m].state = "recording")
             => IndexForSegment(chunkIndex, Len(sent)) = sent[Len(sent)].index)
    /\ [][(Len(sent) \in errors /\ Len(sent') = Len(sent) + 1)
            => sent'[Len(sent')].index = sent[Len(sent)].index]_vars

(***************************************************************************)
(* cleanup(), called by the cleanup of the page's service effect.          *)
(***************************************************************************)
\* cleanup, lines 196-209: stop() of the recorder when isRecording (nothing
\* happens when the recorder is inactive already), the tracks stopped and
\* the stream dropped, then the three fields reset.  Callbacks that are
\* pending (queued recorder events, starts waiting for their stream, uploads
\* in flight) are left as they are: the service keeps no handle on them.
Cleanup ==
    /\ recorders' =
          IF isRecording /\ mediaRecorder # 0
          THEN IF recorders[mediaRecorder].state = "recording"
               THEN [recorders EXCEPT
                       ![mediaRecorder] = StoppedRecorder(recorders[mediaRecorder])]
               ELSE recorders
          ELSE recorders
    /\ localStream' = FALSE
    /\ mediaRecorder' = 0
    /\ chunkIndex' = 0
    /\ isRecording' = FALSE
    /\ cleanedAt' = started
    /\ UNCHANGED <<starting, uploads, sent, uploaded, errors, started, reported,
                   storeIsRecording, received, serverVars>>

NextCleanup ==
    \/ NextRecorder
    \/ Cleanup

SpecCleanup == Init /\ [][NextCleanup]_vars

\* cleanup() has returned and startRecording was not called since
CleanedUp == cleanedAt = started

\* C28: after cleanup() has returned and until the next startRecording call
\* the service stays at isRecording = false, chunkIndex = 0 and no stream,
\* whatever callbacks are pending, and no pending callback sends a segment
\* under an index that was used before.
CleanupStateStays ==
    /\ [](CleanedUp => ~isRecording /\ chunkIndex = 0 /\ ~localStream)
    /\ [][(CleanedUp /\ Len(sent') = Len(sent) + 1)
            => \A i \in DOMAIN sent : sent[i].index # sent'[Len(sent')].index]_vars

\* socket t is sent participant-left for k in room x in this step
SentParticipantLeft(t, k, x) ==
    \E i \in (Len(inbox[t]) + 1)..Len(inbox'[t]) :
        inbox'[t][i] = Event("participant-left", x, k, FALSE, 0)

\* a leave-studio of a joined socket is announced to the others of the room
LeaveStudioAnnounced ==
    [][\A k \in SocketIds, x \in RoomIds :
          (Handles(Message("leave-studio", k, x, FALSE, 0)) /\ k \in rooms[x])
              => \A t \in rooms[x] \ {k} : SentParticipantLeft(t, k, x)]_vars

\* C29: whenever a socket that has joined a studio goes away, by leave-studio
\* or by disconnecting, every other socket still joined to the studio
\* receives participant-left for it: the step in which the server takes the
\* socket out of the room emits the event to the others (no later step can:
\* the server keeps no record of a socket that is gone).
DepartureAnnounced ==
    [][\A k \in SocketIds, x \in RoomIds :
          (k \in rooms[x] /\ k \notin rooms'[x])
              => \A t \in rooms[x] \ {k} : SentParticipantLeft(t, k, x)]_vars

\* C30: events of a studio are delivered only to sockets currently joined to
\* it: whenever a socket is sent an event of studio x (recording-state,
\* participant-joined, participant-left or chunk-uploaded), it is connected
\* and in the room of x when the handler runs, after its join-studio(x) and
\* with no leave-studio(x) of its own since.
OnlyJoinedSocketsReceive ==
    [][\A t \in SocketIds :
          \A i \in (Len(inbox[t]) + 1)..Len(inbox'[t]) :
              LET x == inbox'[t][i].studioId
              IN  /\ t \in rooms[x] /\ t \in rooms'[x]
                  /\ sockets[t] = "connected"
                  /\ \E j \in DOMAIN handled :
                        /\ handled[j] = Message("join-studio", t, x, FALSE, 0)
                        /\ \A l \in (j + 1)..Len(handled) :
                              handled[l] # Message("leave-studio", t, x, FALSE, 0)]_vars

\* C30 witness: a socket received participant-joined while it was joined to
\* the studio and then went away; a recording-state of the studio emitted
\* afterwards reached the socket that stayed, and the one that left was sent
\* nothing more.
NothingAfterGoingAway ==
    /\ sockets["k2"] = "gone"
    /\ inbox["k2"] = <<Event("participant-joined", "s1", "k1", FALSE, 0)>>
    /\ \E i \in DOMAIN inbox["k1"] :
          /\ inbox["k1"][i].type = "recording-state"
          /\ inbox["k1"][i].studioId = "s1"

====
